---- MODULE Spec2Model ----
(***************************************************************************)
(* stdout-rotator (src/main.rs): the Ingest Loop (start_read_cycle), the   *)
(* Stdout Relay (start_stdout_writing), the File Relay                     *)
(* (start_file_writing) with the Rotation Executor (perform_rotation), the *)
(* Rotation Planner (next_file) and the Retention Enforcer                 *)
(* (cleanup_rotations), wired by app.                                      *)
(*                                                                         *)
(* Bytes are naturals in 0..255.  A file is a byte sequence; the live file *)
(* handle is a record [content, pos] (pos is the 0-based stream position). *)
(* The rotation directory is a function from entry names to contents.      *)
(* An entry name <stem>.<digits>[.gz] is the record [stem, num, pad, gz]:   *)
(* num is the value of the digit string (or of the signed number the       *)
(* program formatted), pad its count of leading zeros.                     *)
(***************************************************************************)
EXTENDS Integers, Sequences, FiniteSets, TLC

\* ------------------------------------------------------------------ bounds
MaxInput == 5
MaxBuffer == 3
MaxSize == 2
MaxHistory == 2

\* ------------------------------------------------------- program constants
\* digit.parse::<i32>() and maximum: i32 (main.rs:406, 428)
I32Max == 2147483647
I32Min == (-I32Max) - 1
\* capacity of the LineWriter behind io::stdout() (main.rs:104)
StdoutCapacity == 1024
NewlineByte == 10

NoName == [stem |-> "", num |-> 0, pad |-> 0, gz |-> FALSE]

Min(a, b) == IF a <= b THEN a ELSE b

Prefix(s, n) == SubSeq(s, 1, n)

Suffix(s, n) == SubSeq(s, n + 1, Len(s))

\* ------------------------------------------------------------ file handles
\* File::write_all / io::copy target at stream position pos: bytes before pos
\* are kept (a gap past the end reads as zeros), the written bytes replace what
\* was there, bytes past the written range are kept.
WriteAt(content, pos, bytes) ==
  LET head == [i \in 1..pos |-> IF i <= Len(content) THEN content[i] ELSE 0]
      tail == Suffix(content, Min(Len(content), pos + Len(bytes)))
  IN head \o bytes \o tail

\* io::copy's source side: everything from the stream position to the end.
ReadToEnd(f) == Suffix(f.content, Min(f.pos, Len(f.content)))

\* ------------------------------------------------------------------- gzip
\* GzEncoder: a header (magic 31, 139), the deflated payload (modelled as the
\* byte-wise complement) and a trailer with the input size modulo 256.
GzHeader == <<31, 139>>

GzBody(bytes) == [i \in 1..Len(bytes) |-> 255 - bytes[i]]

GzTrailer(bytes) == <<Len(bytes) % 256>>

GzEncode(bytes) == GzHeader \o GzBody(bytes) \o GzTrailer(bytes)

GzValid(a) ==
  /\ Len(a) >= 3
  /\ Prefix(a, 2) = GzHeader
  /\ a[Len(a)] = (Len(a) - 3) % 256

GzDecode(a) == [i \in 1..(Len(a) - 3) |-> 255 - a[i + 2]]

\* ------------------------------------------------------- Rotation Planner
BaseName == "output.log"

\* The pattern is built by format!("^{}\\.(?<digit>[0-9]+)$", base_name): the
\* base name is not escaped, so its '.' matches any character.
StemMatchesPattern(stem) == stem \in {"output.log", "outputXlog"}

RegexMatches(compression, name) ==
  /\ StemMatchesPattern(name.stem)
  /\ name.num >= 0
  /\ name.gz = compression

\* format!("{}.{}", base_name, n) / format!("{}.{}.gz", base_name, n)
FormatName(compression, n) ==
  [stem |-> BaseName, num |-> n, pad |-> 0, gz |-> compression]

RECURSIVE SetMax(_)
SetMax(S) ==
  IF S = {} THEN 0
  ELSE LET x == CHOOSE y \in S : TRUE
           m == SetMax(S \ {x})
       IN IF m <= x THEN x ELSE m

\* the loop's "if maximum <= parsed { maximum = parsed }" starting from 0
Maximum(matching) == SetMax({n.num : n \in matching})

\* existing_rotated after sort_by on the parsed number: ascending, entries with
\* equal numbers in the order read_dir happened to return them.
RECURSIVE SortedListings(_)
SortedListings(S) ==
  IF S = {} THEN {<<>>}
  ELSE LET m == CHOOSE k \in {n.num : n \in S} : \A n \in S : k <= n.num
       IN UNION {{<<x>> \o t : t \in SortedListings(S \ {x})} :
                 x \in {n \in S : n.num = m}}

\* maximum + 1 on i32: with overflow checks (debug build) the addition panics,
\* without them (release build) it wraps.
NextNumber(maximum, overflow_checks) ==
  IF maximum < I32Max THEN [status |-> "ok", n |-> maximum + 1]
  ELSE IF overflow_checks THEN [status |-> "panic", n |-> 0]
  ELSE [status |-> "ok", n |-> I32Min]

Plan(st, ex, nx) == [status |-> st, existing_rotated |-> ex, next_rotation |-> nx]

\* next_file: the possible results for directory content d.
next_file(compression, d, overflow_checks) ==
  LET matching == {n \in DOMAIN d : RegexMatches(compression, n)}
      nn == NextNumber(Maximum(matching), overflow_checks)
  IN {Plan("err", <<>>, NoName)} \cup
     (IF nn.status = "panic" THEN {Plan("panic", <<>>, NoName)}
      ELSE {Plan("ok", ex, FormatName(compression, nn.n)) :
            ex \in SortedListings(matching)})

\* ----------------------------------------------------- Retention Enforcer
Restrict(d, keep) == [n \in keep |-> d[n]]

\* cleanup_rotations: removes the first len - max_files entries of the sorted
\* listing; a failing fs::remove_file stops it with the earlier ones removed.
cleanup_rotations(max_files, existing_rotated, d) ==
  IF Len(existing_rotated) > max_files
  THEN LET to_remove == Len(existing_rotated) - max_files
           Removed(k) == {existing_rotated[i] : i \in 1..k}
       IN {[status |-> "ok", dir |-> Restrict(d, DOMAIN d \ Removed(to_remove))]}
          \cup {[status |-> "err", dir |-> Restrict(d, DOMAIN d \ Removed(k - 1))] :
                k \in 1..to_remove}
  ELSE {[status |-> "ok", dir |-> d]}

\* ------------------------------------------------------ Rotation Executor
\* a threshold check that is off by one byte
NeedsRotationLate(current_position, max_size) == current_position > max_size + 1

\* a threshold check that already rotates at exactly max_size
NeedsRotationEager(current_position, max_size) == current_position >= max_size

\* "if current_position <= max_size { return Ok(()) }"
NeedsRotation(current_position, max_size) == current_position > max_size

\* retention that makes no room for the archive about to be created
KeepOnRotationAll(max_history) == max_history

\* the keep count handed to cleanup_rotations before an archive is created
KeepOnRotation(max_history) == max_history - 1

\* a rotation that leaves the stream position where it was
SeekStartSkipped(f) == f

\* current_file.seek(io::SeekFrom::Start(0))
SeekStart(f) == [f EXCEPT !.pos = 0]

\* current_file.set_len(0): the length changes, the stream position does not
SetLenZero(f) == [f EXCEPT !.content = <<>>]

\* the bytes io::copy and finish() put into the archive for source bytes data
ArchiveBody(compress, data) ==
  IF compress THEN GzHeader \o GzBody(data) ELSE data

ArchiveTrailerMissing(compress, data) == <<>>

ArchiveTrailer(compress, data) ==
  IF compress THEN GzTrailer(data) ELSE <<>>

\* File::options().read(true).write(true).create(true).open(target): an
\* existing entry keeps its content (no truncate), a new one starts empty.
OpenCreate(d, target) ==
  [n \in DOMAIN d \cup {target} |-> IF n \in DOMAIN d THEN d[n] ELSE <<>>]

Outcome(st, f, d, cr, rot) ==
  [status |-> st, file |-> f, dir |-> d, created |-> cr, rotated |-> rot]

\* max_history == 0 (main.rs:224-237): retention with keep 0, truncate, seek.
RotateDiscard(current_file, plan, d) ==
  UNION {
    IF c.status = "err"
    THEN {Outcome("err", current_file, c.dir, NoName, FALSE)}
    ELSE { Outcome("err", current_file, c.dir, NoName, FALSE),
           Outcome("err", SetLenZero(current_file), c.dir, NoName, FALSE),
           Outcome("ok", SeekStart(SetLenZero(current_file)), c.dir, NoName, TRUE) }
    : c \in cleanup_rotations(0, plan.existing_rotated, d) }

\* max_history > 0 (main.rs:238-299): retention, flush, seek to start, open the
\* archive, copy (through the compressor when compress), finish and flush,
\* truncate, seek to start.  Every step may fail and leaves what was done.
RotateArchive(current_file, max_history, compress, plan, d) ==
  UNION {
    IF c.status = "err"
    THEN {Outcome("err", current_file, c.dir, NoName, FALSE)}
    ELSE
      LET target == plan.next_rotation
          source == SeekStart(current_file)
          d1 == OpenCreate(c.dir, target)
          data == ReadToEnd(source)
          drained == [source EXCEPT !.pos = Len(source.content)]
          body == ArchiveBody(compress, data)
          full == body \o ArchiveTrailer(compress, data)
          WithArchive(bytes) == [d1 EXCEPT ![target] = WriteAt(d1[target], 0, bytes)]
      IN  \* flush, seek or open failed
          { Outcome("err", current_file, c.dir, NoName, FALSE),
            Outcome("err", source, c.dir, NoName, FALSE) }
          \cup \* the copy or finish() failed after k bytes reached the archive
          { Outcome("err", drained, WithArchive(Prefix(body, k)), NoName, FALSE) :
            k \in 0..Len(body) }
          \cup \* the archive is complete; set_len or the last seek failed
          { Outcome("err", drained, WithArchive(full), NoName, FALSE),
            Outcome("err", SetLenZero(drained), WithArchive(full), NoName, FALSE) }
          \cup
          { Outcome("ok", SeekStart(SetLenZero(drained)), WithArchive(full), target, TRUE) }
    : c \in cleanup_rotations(KeepOnRotation(max_history), plan.existing_rotated, d) }

\* perform_rotation: the possible results for live file handle current_file and
\* rotation directory content d.
perform_rotation(current_file, max_history, max_size, compress, overflow_checks, d) ==
  IF ~NeedsRotation(current_file.pos, max_size)
  THEN {Outcome("ok", current_file, d, NoName, FALSE)}
  ELSE UNION {
    IF plan.status # "ok"
    THEN {Outcome(plan.status, current_file, d, NoName, FALSE)}
    ELSE IF max_history = 0
    THEN RotateDiscard(current_file, plan, d)
    ELSE RotateArchive(current_file, max_history, compress, plan, d)
    : plan \in next_file(compress, d, overflow_checks) }

\* ------------------------------------------------------------ Stdout Relay
HasNewline(chunk) == \E i \in 1..Len(chunk) : chunk[i] = NewlineByte

LastNewline(chunk) ==
  CHOOSE i \in 1..Len(chunk) :
    chunk[i] = NewlineByte /\ \A j \in (i + 1)..Len(chunk) : chunk[j] # NewlineByte

\* The byte counts stdout.write(&read) can return Ok for (Write::write may
\* accept a prefix).  io::stdout() is line buffered: a chunk without a newline
\* that is shorter than the buffer is buffered whole; with a newline the lines
\* part goes to the descriptor, and when that write is short the rest of the
\* lines is buffered and the tail after the last newline is not accepted; a
\* chunk that does not fit the buffer is cut to what the descriptor or the
\* buffer takes.
StdoutWriteCounts(chunk) ==
  IF Len(chunk) >= StdoutCapacity THEN 1..Len(chunk)
  ELSE IF HasNewline(chunk) /\ LastNewline(chunk) >= 2
  THEN {LastNewline(chunk), Len(chunk)}
  ELSE {Len(chunk)}

\* ------------------------------------------------------------- Ingest Loop
\* a barrier that waits for one acknowledgment only
AfterAckSingle(pc) == "read"

\* a barrier that never counts its second acknowledgment
AfterAckRepeat(pc) == "ack2"

\* the receive that follows a successful rxcomplete.recv()
AfterAck(pc) == IF pc = "ack1" THEN "ack2" ELSE "read"

\* ------------------------------------------------------------------- state
VARIABLES
  cfg,          \* Args: max_history, max_size, buffer_size, gunzip; the build's overflow checks; the pipe's read behaviour
  input,        \* every byte standard input will deliver
  stdin,        \* the bytes standard input has not delivered yet
  appPc,        \* app/main: "plan", "start", "run", "join_stdout", "join_file", "done", "exit1", "panicked"
  ingestPc,     \* start_read_cycle: "idle", "read", "send_stdout", "send_file", "ack1", "ack2", "ok", "failed"
  buffer,       \* buffer[0..read_data]
  chStdout,     \* channel txstdout -> rxstdout
  chFile,       \* channel txfile -> rxfile
  chAck,        \* channel txcomplete1, txcomplete2 -> rxcomplete (each entry tagged with its sender)
  stdoutPc,     \* stdout_writer: "idle", "recv", "write", "ack", "done"
  stdoutChunk,  \* read
  stdoutOut,    \* the bytes standard output accepted
  filePc,       \* file_writer: "idle", "recv", "write", "rotate", "ack", "flush", "done"
  fileChunk,    \* read
  file,         \* the live file and its handle: [content, pos]
  dir,          \* the rotation directory: entry name -> content
  hist          \* history of the run (observation only)

vars == <<cfg, input, stdin, appPc, ingestPc, buffer, chStdout, chFile, chAck,
          stdoutPc, stdoutChunk, stdoutOut, filePc, fileChunk, file, dir, hist>>

appVars == <<appPc>>
ingestVars == <<stdin, ingestPc, buffer>>
stdoutVars == <<stdoutPc, stdoutChunk, stdoutOut>>
fileVars == <<filePc, fileChunk, file, dir>>
chanVars == <<chStdout, chFile, chAck>>

\* the process is alive: exit(1) and a panic of the main thread end every thread
Alive == appPc \notin {"exit1", "panicked", "done"}

\* endpoints are dropped when the function or thread owning them returns
IngestEndpointsDropped == ingestPc \in {"ok", "failed"}
StdoutEndpointsDropped == stdoutPc = "done"
FileEndpointsDropped == filePc = "done"

\* ------------------------------------------------------------------- inputs
InputByteA(i) == IF i = 2 THEN NewlineByte ELSE 64 + i
InputByteB(i) == 65 + (i % 2)

Inputs ==
  {[i \in 1..n |-> InputByteA(i)] : n \in 0..MaxInput} \cup
  {[i \in 1..n |-> InputByteB(i)] : n \in 1..MaxBuffer}

Arch(stem, num, pad, gz) == [stem |-> stem, num |-> num, pad |-> pad, gz |-> gz]

OldArchive == <<79, 76, 68>>

DirOf(names) == [n \in names |-> OldArchive]

\* rotation directories holding nothing, or archives of earlier runs
PlainDirs ==
  { DirOf({}),
    DirOf({Arch("output.log", 1, 0, FALSE), Arch("output.log", 2, 0, FALSE),
           Arch("output.log", 7, 0, FALSE), Arch("output.log", 1, 0, TRUE),
           Arch("output.log", 2, 0, TRUE), Arch("output.log", 4, 0, TRUE)}) }

\* rotation directories the run may start with
InitDirs ==
  PlainDirs \cup {
    \* output.log.1, output.log.01, outputXlog.3, outputXlog.3.gz
    DirOf({Arch("output.log", 1, 0, FALSE), Arch("output.log", 1, 1, FALSE),
           Arch("outputXlog", 3, 0, FALSE), Arch("outputXlog", 3, 0, TRUE)}),
    DirOf({Arch("output.log", I32Max, 0, FALSE), Arch("output.log", I32Max, 0, TRUE),
           Arch("output.log", 5, 0, FALSE), Arch("output.log", 5, 0, TRUE)}) }

ReachesI32Max(d) == \E n \in DOMAIN d : n.num = I32Max

OldLive == <<88, 88, 88, 88, 88, 88>>

NoRotation == [status |-> "none", rotated |-> FALSE, created |-> NoName,
               before |-> <<>>, namesBefore |-> {}]

InitHist ==
  [ sent |-> [stdout |-> 0, file |-> 0],
    acked |-> [stdout |-> 0, file |-> 0],
    round |-> <<>>,
    fileReceived |-> <<>>,
    created |-> <<>>,
    rotations |-> 0,
    lastRot |-> NoRotation,
    ioFailed |-> {},
    filePanicked |-> FALSE ]

Configs ==
  [ max_history : 0..MaxHistory, max_size : 1..MaxSize, buffer_size : 1..MaxBuffer,
    compress : BOOLEAN, overflow_checks : BOOLEAN, full_reads : {FALSE} ]

Init ==
  /\ cfg \in Configs
  /\ dir \in InitDirs
  \* the build only shows where maximum + 1 overflows
  /\ cfg.overflow_checks \/ ReachesI32Max(dir)
  /\ input \in Inputs
  /\ stdin = input
  /\ file \in {[content |-> c, pos |-> 0] : c \in {<<>>, OldLive}}
  /\ appPc = "plan"
  /\ ingestPc = "idle"
  /\ stdoutPc = "idle"
  /\ filePc = "idle"
  /\ buffer = <<>>
  /\ stdoutChunk = <<>>
  /\ fileChunk = <<>>
  /\ chStdout = <<>>
  /\ chFile = <<>>
  /\ chAck = <<>>
  /\ stdoutOut = <<>>
  /\ hist = InitHist

\* --------------------------------------------------------------------- app
\* app, main.rs:476-481: the start-up plan and retention with keep max_history
AppPlan ==
  /\ appPc = "plan"
  /\ \E plan \in next_file(cfg.compress, dir, cfg.overflow_checks) :
       IF plan.status = "ok"
       THEN \E c \in cleanup_rotations(cfg.max_history, plan.existing_rotated, dir) :
              /\ dir' = c.dir
              /\ appPc' = IF c.status = "ok" THEN "start" ELSE "exit1"
       ELSE /\ dir' = dir
            /\ appPc' = IF plan.status = "panic" THEN "panicked" ELSE "exit1"
  /\ UNCHANGED <<cfg, input, ingestVars, stdoutVars, chanVars, filePc, fileChunk, file, hist>>

\* an open that keeps what the output file held
OpenLiveKeep(f) == [f EXCEPT !.pos = 0]

\* start_file_writing, main.rs:147-165: open (create) the output file at
\* position 0 and set_len(0)
OpenLive(f) == [content |-> <<>>, pos |-> 0]

\* app, main.rs:482-498: the channels, both relay threads; a failing open or
\* set_len makes app return the error
AppStart ==
  /\ appPc = "start"
  /\ \E opened \in BOOLEAN :
       IF opened
       THEN /\ file' = OpenLive(file)
            /\ appPc' = "run"
            /\ ingestPc' = "read"
            /\ stdoutPc' = "recv"
            /\ filePc' = "recv"
       ELSE /\ appPc' = "exit1"
            /\ UNCHANGED <<file, ingestPc, stdoutPc, filePc>>
  /\ UNCHANGED <<cfg, input, stdin, buffer, chanVars, stdoutChunk, stdoutOut,
                 fileChunk, dir, hist>>

\* app, main.rs:499: start_read_cycle(...)? returns the error at once, and main
\* exits with status 1
AppReturn ==
  /\ appPc = "run"
  /\ ingestPc \in {"ok", "failed"}
  /\ appPc' = IF ingestPc = "ok" THEN "join_stdout" ELSE "exit1"
  /\ UNCHANGED <<cfg, input, ingestVars, stdoutVars, fileVars, chanVars, hist>>

\* app, main.rs:500-502
AppJoinStdout ==
  /\ appPc = "join_stdout"
  /\ stdoutPc = "done"
  /\ appPc' = "join_file"
  /\ UNCHANGED <<cfg, input, ingestVars, stdoutVars, fileVars, chanVars, hist>>

\* app, main.rs:503-506: joining a panicked thread is an error
AppJoinFile ==
  /\ appPc = "join_file"
  /\ filePc = "done"
  /\ appPc' = IF hist.filePanicked THEN "exit1" ELSE "done"
  /\ UNCHANGED <<cfg, input, ingestVars, stdoutVars, fileVars, chanVars, hist>>

\* ------------------------------------------------------------- Ingest Loop
\* what stdin.read(&mut buffer) can return: 0 at end of input, otherwise a
\* non-empty count up to the buffer size (the whole buffer when the pipe always
\* has the data ready); -1 stands for an error
ReadCounts(remaining, buffer_size, full_reads) ==
  IF remaining = <<>> THEN {0, -1}
  ELSE IF full_reads THEN {Min(buffer_size, Len(remaining)), -1}
  ELSE (1..Min(buffer_size, Len(remaining))) \cup {-1}

\* main.rs:312-318
IngestRead ==
  /\ Alive
  /\ ingestPc = "read"
  /\ \E read_data \in ReadCounts(stdin, cfg.buffer_size, cfg.full_reads) :
       IF read_data = -1
       THEN /\ ingestPc' = "failed"
            /\ UNCHANGED <<stdin, buffer, hist>>
       ELSE IF read_data = 0
       THEN /\ ingestPc' = "ok"
            /\ UNCHANGED <<stdin, buffer, hist>>
       ELSE /\ buffer' = Prefix(stdin, read_data)
            /\ stdin' = Suffix(stdin, read_data)
            /\ ingestPc' = "send_stdout"
            /\ hist' = [hist EXCEPT !.round = <<>>]
  /\ UNCHANGED <<cfg, input, appVars, stdoutVars, fileVars, chanVars>>

\* main.rs:319-324: send fails once the receiver is dropped
IngestSendStdout ==
  /\ Alive
  /\ ingestPc = "send_stdout"
  /\ IF StdoutEndpointsDropped
     THEN /\ ingestPc' = "failed"
          /\ UNCHANGED <<chStdout, hist>>
     ELSE /\ chStdout' = Append(chStdout, buffer)
          /\ ingestPc' = "send_file"
          /\ hist' = [hist EXCEPT !.sent.stdout = @ + 1]
  /\ UNCHANGED <<cfg, input, appVars, stdin, buffer, stdoutVars, fileVars, chFile, chAck>>

\* main.rs:325-327
IngestSendFile ==
  /\ Alive
  /\ ingestPc = "send_file"
  /\ IF FileEndpointsDropped
     THEN /\ ingestPc' = "failed"
          /\ UNCHANGED <<chFile, hist>>
     ELSE /\ chFile' = Append(chFile, buffer)
          /\ ingestPc' = "ack1"
          /\ hist' = [hist EXCEPT !.sent.file = @ + 1]
  /\ UNCHANGED <<cfg, input, appVars, stdin, buffer, stdoutVars, fileVars, chStdout, chAck>>

\* main.rs:328-339: rxcomplete.recv() returns a queued acknowledgment, fails when
\* the queue is empty and every sender is dropped, and blocks otherwise
IngestAck ==
  /\ Alive
  /\ ingestPc \in {"ack1", "ack2"}
  /\ chAck # <<>> \/ (StdoutEndpointsDropped /\ FileEndpointsDropped)
  /\ IF chAck # <<>>
     THEN /\ chAck' = Tail(chAck)
          /\ ingestPc' = AfterAck(ingestPc)
          /\ hist' = [hist EXCEPT !.round = Append(@, Head(chAck))]
     ELSE /\ ingestPc' = "failed"
          /\ UNCHANGED <<chAck, hist>>
  /\ UNCHANGED <<cfg, input, appVars, stdin, buffer, stdoutVars, fileVars, chStdout, chFile>>

\* ------------------------------------------------------------ Stdout Relay
\* main.rs:108-114
StdoutRecv ==
  /\ Alive
  /\ stdoutPc = "recv"
  /\ chStdout # <<>> \/ IngestEndpointsDropped
  /\ IF chStdout # <<>>
     THEN /\ stdoutChunk' = Head(chStdout)
          /\ chStdout' = Tail(chStdout)
          /\ stdoutPc' = "write"
     ELSE /\ stdoutPc' = "done"
          /\ UNCHANGED <<stdoutChunk, chStdout>>
  /\ UNCHANGED <<cfg, input, appVars, ingestVars, stdoutOut, fileVars, chFile, chAck, hist>>

\* main.rs:115-119: -1 stands for Err
StdoutWrite ==
  /\ Alive
  /\ stdoutPc = "write"
  /\ \E n \in StdoutWriteCounts(stdoutChunk) \cup {-1} :
       IF n = -1
       THEN /\ stdoutPc' = "done"
            /\ hist' = [hist EXCEPT !.ioFailed = @ \cup {"stdout"}]
            /\ UNCHANGED stdoutOut
       ELSE /\ stdoutOut' = stdoutOut \o Prefix(stdoutChunk, n)
            /\ stdoutPc' = "ack"
            /\ UNCHANGED hist
  /\ UNCHANGED <<cfg, input, appVars, ingestVars, stdoutChunk, fileVars, chanVars>>

\* main.rs:120-123
StdoutAck ==
  /\ Alive
  /\ stdoutPc = "ack"
  /\ IF IngestEndpointsDropped
     THEN /\ stdoutPc' = "done"
          /\ UNCHANGED <<chAck, hist>>
     ELSE /\ chAck' = Append(chAck, "stdout")
          /\ stdoutPc' = "recv"
          /\ hist' = [hist EXCEPT !.acked.stdout = @ + 1]
  /\ UNCHANGED <<cfg, input, appVars, ingestVars, stdoutChunk, stdoutOut, fileVars,
                 chStdout, chFile>>

\* -------------------------------------------------------------- File Relay
\* main.rs:172-178
FileRecv ==
  /\ Alive
  /\ filePc = "recv"
  /\ chFile # <<>> \/ IngestEndpointsDropped
  /\ IF chFile # <<>>
     THEN /\ fileChunk' = Head(chFile)
          /\ chFile' = Tail(chFile)
          /\ filePc' = "write"
          /\ hist' = [hist EXCEPT !.fileReceived = @ \o Head(chFile)]
     ELSE /\ filePc' = "flush"
          /\ UNCHANGED <<fileChunk, chFile, hist>>
  /\ UNCHANGED <<cfg, input, appVars, ingestVars, stdoutVars, file, dir, chStdout, chAck>>

\* file.write_all(&read) at the handle's position
FileWriteAll(f, bytes) ==
  [content |-> WriteAt(f.content, f.pos, bytes), pos |-> f.pos + Len(bytes)]

\* main.rs:179-184: write_all writes every byte or fails after k < len of them
FileWrite ==
  /\ Alive
  /\ filePc = "write"
  /\ \E k \in 0..Len(fileChunk) :
       IF k = Len(fileChunk)
       THEN /\ file' = FileWriteAll(file, fileChunk)
            /\ filePc' = "rotate"
            /\ UNCHANGED hist
       ELSE /\ file' = FileWriteAll(file, Prefix(fileChunk, k))
            /\ filePc' = "flush"
            /\ hist' = [hist EXCEPT !.ioFailed = @ \cup {"file"}]
  /\ UNCHANGED <<cfg, input, appVars, ingestVars, stdoutVars, fileChunk, dir, chanVars>>

AfterRotationResume(status) == IF status = "panic" THEN "done" ELSE "ack"

\* main.rs:185-197: Ok goes on to the acknowledgment, Err logs and breaks out
\* of the loop to the final flush, a panic ends the thread
AfterRotation(status) ==
  CASE status = "ok" -> "ack"
    [] status = "err" -> "flush"
    [] OTHER -> "done"

\* main.rs:185-197: perform_rotation; an error stops the loop, a panic ends the
\* thread without the final flush
FileRotate ==
  /\ Alive
  /\ filePc = "rotate"
  /\ \E o \in perform_rotation(file, cfg.max_history, cfg.max_size, cfg.compress,
                               cfg.overflow_checks, dir) :
       /\ file' = o.file
       /\ dir' = o.dir
       /\ filePc' = AfterRotation(o.status)
       /\ hist' = [hist EXCEPT
            !.lastRot = [status |-> o.status, rotated |-> o.rotated,
                         created |-> o.created, before |-> file.content,
                         namesBefore |-> DOMAIN dir],
            !.created = IF o.created # NoName THEN Append(@, o.created.num) ELSE @,
            !.rotations = IF o.rotated THEN @ + 1 ELSE @,
            !.ioFailed = IF o.status = "err" THEN @ \cup {"file"} ELSE @,
            !.filePanicked = (o.status = "panic")]
  /\ UNCHANGED <<cfg, input, appVars, ingestVars, stdoutVars, fileChunk, chanVars>>

\* main.rs:198-201
FileAck ==
  /\ Alive
  /\ filePc = "ack"
  /\ IF IngestEndpointsDropped
     THEN /\ filePc' = "flush"
          /\ UNCHANGED <<chAck, hist>>
     ELSE /\ chAck' = Append(chAck, "file")
          /\ filePc' = "recv"
          /\ hist' = [hist EXCEPT !.acked.file = @ + 1]
  /\ UNCHANGED <<cfg, input, appVars, ingestVars, stdoutVars, fileChunk, file, dir,
                 chStdout, chFile>>

\* main.rs:203-205: file.flush() after the loop, then the thread ends
FileFlush ==
  /\ Alive
  /\ filePc = "flush"
  /\ filePc' = "done"
  /\ UNCHANGED <<cfg, input, appVars, ingestVars, stdoutVars, fileChunk, file, dir,
                 chanVars, hist>>

\* ------------------------------------------------------------ specification
AppNext == AppPlan \/ AppStart \/ AppReturn \/ AppJoinStdout \/ AppJoinFile
IngestNext == IngestRead \/ IngestSendStdout \/ IngestSendFile \/ IngestAck
StdoutNext == StdoutRecv \/ StdoutWrite \/ StdoutAck
FileNext == FileRecv \/ FileWrite \/ FileRotate \/ FileAck \/ FileFlush

Next == AppNext \/ IngestNext \/ StdoutNext \/ FileNext

Spec == Init /\ [][Next]_vars

\* the runs that start with a rotation directory of PlainDirs
InitPlain == Init /\ dir \in PlainDirs

\* every thread that can take a step eventually takes one
FairSpecPlain ==
  /\ InitPlain /\ [][Next]_vars
  /\ WF_vars(AppNext) /\ WF_vars(IngestNext) /\ WF_vars(StdoutNext) /\ WF_vars(FileNext)

FairSpec ==
  Spec /\ WF_vars(AppNext) /\ WF_vars(IngestNext) /\ WF_vars(StdoutNext) /\ WF_vars(FileNext)

TypeOK ==
  /\ appPc \in {"plan", "start", "run", "join_stdout", "join_file", "done", "exit1", "panicked"}
  /\ ingestPc \in {"idle", "read", "send_stdout", "send_file", "ack1", "ack2", "ok", "failed"}
  /\ stdoutPc \in {"idle", "recv", "write", "ack", "done"}
  /\ filePc \in {"idle", "recv", "write", "rotate", "ack", "flush", "done"}
  /\ file.pos \in Nat

\* ------------------------------------------------------------------ claims
RunEndedOk == appPc = "done"

\* C1 (Tee fidelity): when the run ends on end-of-input without a reported
\* failure, the bytes standard output accepted are exactly the input bytes,
\* in order.
C1_TeeFidelity == RunEndedOk => stdoutOut = input

\* C2 (Lockstep barrier): chunk k+1 is sent to a relay only after both relays
\* have sent their acknowledgment for chunk k, no chunk channel holds more than
\* one chunk, and the two acknowledgments consumed for a chunk come one from
\* each relay.
C2_Lockstep ==
  /\ hist.sent.stdout <= Min(hist.acked.stdout, hist.acked.file) + 1
  /\ hist.sent.file <= Min(hist.acked.stdout, hist.acked.file) + 1
  /\ Len(chStdout) <= 1
  /\ Len(chFile) <= 1
  /\ Len(hist.round) = 2 => hist.round \in {<<"stdout", "file">>, <<"file", "stdout">>}

C2_Witness ==
  /\ hist.sent.stdout = 2
  /\ hist.sent.file = 2
  /\ Len(hist.round) = 2

\* C3 (Failure propagation without hanging): once a relay has stopped on an I/O
\* failure, the Ingest Loop eventually returns a failure.
C3_NoHang == (hist.ioFailed # {}) ~> (ingestPc = "failed")

\* C4 (Rotation trigger): whenever the File Relay is about to append or to
\* acknowledge, the live file holds at most max_size bytes, and an append that
\* left it longer was followed by a rotation before the acknowledgment.
C4_RotationTrigger ==
  /\ filePc \in {"write", "ack"} => Len(file.content) <= cfg.max_size
  /\ (filePc = "ack" /\ Len(hist.lastRot.before) > cfg.max_size) => hist.lastRot.rotated

C4_Witness ==
  /\ filePc = "ack"
  /\ Len(hist.lastRot.before) > cfg.max_size
  /\ hist.lastRot.rotated
  /\ hist.rotations = 2

\* the entries named <base-name>.<N> (compression off) or <base-name>.<N>.gz
\* (compression on), N a string of digits
ActiveArchives ==
  {n \in DOMAIN dir : n.stem = BaseName /\ n.gz = cfg.compress /\ n.num >= 0}

RotationSucceeded == hist.lastRot.status = "ok" /\ hist.lastRot.rotated

C6_NumberingMonotonic ==
  cfg.max_history >= 1 =>
    \A i \in 2..Len(hist.created) : hist.created[i] = hist.created[i - 1] + 1

\* C7 (Zero-retention semantics): with max_history = 0, when the File Relay
\* acknowledges after a successful rotation no archive of the active naming mode
\* exists, the live file is empty with its position at the start, and the
\* rotation added no entry to the rotation directory.
C7_ZeroRetention ==
  (filePc = "ack" /\ RotationSucceeded /\ cfg.max_history = 0) =>
    /\ ActiveArchives = {}
    /\ file = [content |-> <<>>, pos |-> 0]
    /\ hist.lastRot.created = NoName
    /\ hist.created = <<>>
    /\ DOMAIN dir \subseteq hist.lastRot.namesBefore

C7_Witness ==
  /\ filePc = "ack"
  /\ RotationSucceeded
  /\ cfg.max_history = 0
  /\ hist.rotations = 2
  /\ Len(hist.lastRot.before) > cfg.max_size

\* C9 (Pre-rotation file fidelity): when the run ends on end-of-input and no
\* rotation occurred, the live file holds exactly the input bytes, whatever the
\* output file held before the run.
C9_NoRotationFidelity ==
  (RunEndedOk /\ hist.rotations = 0) => file.content = input

C9_Witness ==
  /\ RunEndedOk
  /\ hist.rotations = 0
  /\ hist.sent.file = 2
  /\ Len(input) = 2

\* what a reader of the archive gets: the raw bytes, or the gunzipped bytes
ArchiveHolds(compress, bytes, expected) ==
  IF compress THEN GzValid(bytes) /\ GzDecode(bytes) = expected
  ELSE bytes = expected

\* C10 (Archive content): when the File Relay acknowledges after a successful
\* rotation with max_history >= 1, the archive that rotation produced holds
\* (decompressed, when compression is on) exactly the bytes the live file held
\* immediately before the rotation.
C10_ArchiveContent ==
  (filePc = "ack" /\ RotationSucceeded /\ cfg.max_history >= 1) =>
    /\ hist.lastRot.created \in DOMAIN dir
    /\ ArchiveHolds(cfg.compress, dir[hist.lastRot.created], hist.lastRot.before)

\* ---------------------------------------------------------------- scenario
\* "AAAA BBBB CCCC DDDD"
ScenarioInput ==
  <<65, 65, 65, 65, 32, 66, 66, 66, 66, 32, 67, 67, 67, 67, 32, 68, 68, 68, 68>>

ScenarioConfig ==
  [ max_history |-> 2, max_size |-> 8, buffer_size |-> 4, compress |-> FALSE,
    overflow_checks |-> TRUE, full_reads |-> TRUE ]

InitScenario ==
  /\ cfg \in {ScenarioConfig, [ScenarioConfig EXCEPT !.overflow_checks = FALSE]}
  /\ dir = DirOf({})
  /\ input = ScenarioInput
  /\ stdin = input
  /\ file \in {[content |-> c, pos |-> 0] : c \in {<<>>, OldLive}}
  /\ appPc = "plan"
  /\ ingestPc = "idle"
  /\ stdoutPc = "idle"
  /\ filePc = "idle"
  /\ buffer = <<>>
  /\ stdoutChunk = <<>>
  /\ fileChunk = <<>>
  /\ chStdout = <<>>
  /\ chFile = <<>>
  /\ chAck = <<>>
  /\ stdoutOut = <<>>
  /\ hist = InitHist

SpecScenario == InitScenario /\ [][Next]_vars

Plain(n) == Arch(BaseName, n, 0, FALSE)

\* C8 (Scenario), as claimed: at the end of the run standard output has the 19
\* bytes, exactly output.log.1 and output.log.2 exist and together hold the input
\* written before the last rotation, and the live file holds the bytes written
\* after it.
C8_ScenarioAsClaimed ==
  RunEndedOk =>
    /\ stdoutOut = ScenarioInput
    /\ DOMAIN dir = {Plain(1), Plain(2)}
    /\ dir[Plain(1)] \o dir[Plain(2)] \o file.content = ScenarioInput

\* C8 (Scenario), amended: at the end of the run standard output has the 19
\* bytes, exactly one archive output.log.1 exists and holds the first 12 input
\* bytes (the only append that leaves more than 8 bytes is the third), and the
\* live file holds the last 7 bytes.
C8_Scenario ==
  RunEndedOk =>
    /\ stdoutOut = ScenarioInput
    /\ DOMAIN dir = {Plain(1)}
    /\ dir[Plain(1)] = Prefix(ScenarioInput, 12)
    /\ file.content = Suffix(ScenarioInput, 12)
    /\ hist.rotations = 1

C8_Witness ==
  /\ RunEndedOk
  /\ input = ScenarioInput
  /\ hist.sent.file = 5
  /\ hist.rotations = 1

\* ----------------------------------------------------- claims C11 .. C20
\* C11 (Join on error): when the Ingest Loop has returned a failure and the
\* process exits with a non-zero status, both relay threads have finished.
C11_JoinOnError ==
  (appPc = "exit1" /\ ingestPc = "failed") => (stdoutPc = "done" /\ filePc = "done")

\* something failed: an I/O error in a relay, a read error or channel error in
\* the Ingest Loop, an error or panic at start-up or in a rotation
SomethingFailed ==
  \/ hist.ioFailed # {}
  \/ hist.filePanicked
  \/ ingestPc = "failed"
  \/ appPc \in {"exit1", "panicked"}

CleanlyTerminated ==
  /\ appPc = "done"
  /\ ingestPc = "ok"
  /\ stdoutPc = "done"
  /\ filePc = "done"
  /\ stdin = <<>>
  /\ chStdout = <<>>
  /\ chFile = <<>>
  /\ hist.acked.stdout = hist.sent.stdout
  /\ hist.acked.file = hist.sent.file
  /\ hist.sent.stdout = hist.sent.file

\* C12 (Clean termination): under fair scheduling, unless something fails, the
\* run eventually ends with the Ingest Loop returned normally, both relays
\* terminated and joined, and every chunk read acknowledged by both relays.
C12_CleanTermination == <>(SomethingFailed \/ CleanlyTerminated)

C12_Witness ==
  /\ CleanlyTerminated
  /\ ~SomethingFailed
  /\ hist.sent.file = 2
  /\ hist.rotations = 1

\* the archives of the active naming mode among the entry names
ArchivesAmong(names) ==
  {n \in names : n.stem = BaseName /\ n.gz = cfg.compress /\ n.num >= 0}

\* C13 (Retention window): when the File Relay acknowledges after a successful
\* rotation with max_history >= 1, the archives present are the new archive
\* plus min(existing, max_history - 1) archives that existed before, every
\* deleted archive has a lower number than every retained one (so nothing is
\* deleted when at most max_history - 1 existed).
C13_RetentionWindow ==
  (filePc = "ack" /\ RotationSucceeded /\ cfg.max_history >= 1) =>
    LET before == ArchivesAmong(hist.lastRot.namesBefore)
        kept == ActiveArchives \cap before
        deleted == before \ ActiveArchives
    IN /\ hist.lastRot.created \in ActiveArchives
       /\ ActiveArchives \subseteq before \cup {hist.lastRot.created}
       /\ Cardinality(kept) = Min(Cardinality(before), cfg.max_history - 1)
       /\ \A x \in deleted : \A y \in kept : x.num < y.num

\* C14 (Planner matching): no step removes an entry that is not literally named
\* <base-name>.<digits> (compression off) or <base-name>.<digits>.gz
\* (compression on), and the number of a new archive is one more than the
\* highest number among the literally named archives (1 when there is none).
C14_PlannerMatching ==
  [][ /\ \A n \in DOMAIN dir : n \notin ActiveArchives => n \in DOMAIN dir'
      /\ hist'.created # hist.created =>
           /\ hist'.lastRot.created.num # I32Min
           /\ hist'.lastRot.created.num - 1 = Maximum(ActiveArchives) ]_vars

\* C15 (No preemptive rotation): a Rotation Executor call made with the live
\* file's write position <= max_size returns success (the relay goes on to
\* the acknowledgment) and leaves the live file's contents and position and
\* the set and contents of the directory's files unchanged.
C15_NoPreemptiveRotation ==
  [][ (filePc = "rotate" /\ filePc' # "rotate" /\ file.pos <= cfg.max_size) =>
        /\ filePc' = "ack"
        /\ file' = file
        /\ dir' = dir
        /\ hist'.rotations = hist.rotations
        /\ hist'.created = hist.created ]_vars

C15_Witness ==
  /\ filePc = "ack"
  /\ hist.lastRot.status = "ok"
  /\ ~hist.lastRot.rotated
  /\ file.pos = cfg.max_size
  /\ hist.lastRot.before = file.content
  /\ hist.lastRot.namesBefore = DOMAIN dir
  /\ DOMAIN dir # {}

\* C16 (Stdout ack means fully written): whenever the Stdout Relay is about to
\* send the acknowledgment for a chunk, standard output ends with every byte
\* of that chunk.
C16_StdoutAckFullyWritten ==
  stdoutPc = "ack" =>
    /\ Len(stdoutOut) >= Len(stdoutChunk)
    /\ Suffix(stdoutOut, Len(stdoutOut) - Len(stdoutChunk)) = stdoutChunk

\* chunks the File Relay has taken from its channel so far
FileChunksReceived == hist.sent.file - Len(chFile)

\* C17 (File Relay stops on failure): once an append or a rotation has failed
\* the File Relay sends no acknowledgment, takes no further chunk and changes
\* neither the live file nor the directory; in every other case it has sent
\* one acknowledgment for every chunk it received, except the chunk it is
\* still appending, rotating or about to acknowledge.
C17_FileRelayStopsOnFailure ==
  [][ /\ "file" \in hist.ioFailed =>
           /\ filePc' \in {"flush", "done"}
           /\ file' = file
           /\ dir' = dir
           /\ Len(chFile') >= Len(chFile)
           /\ hist'.acked.file = hist.acked.file
      /\ "file" \notin hist'.ioFailed =>
           hist'.acked.file = FileChunksReceived'
                                - (IF filePc' \in {"write", "rotate", "ack"} THEN 1 ELSE 0)
    ]_vars

C17_Witness ==
  /\ "file" \in hist.ioFailed
  /\ hist.lastRot.status = "err"
  /\ filePc = "done"
  /\ FileChunksReceived = 2
  /\ hist.acked.file = 1

\* C18 (Truncate only after a complete archive): with max_history >= 1 a
\* Rotation Executor call either leaves the live file's contents as they were
\* or leaves it empty with an archive in the directory that starts with the
\* complete (finished) archive form of those contents; a call that reports
\* success without having rotated changes nothing.
C18_TruncateAfterArchive ==
  [][ (filePc = "rotate" /\ filePc' # "rotate" /\ cfg.max_history >= 1) =>
        LET full == IF cfg.compress THEN GzEncode(file.content) ELSE file.content
        IN \/ file'.content = file.content
           \/ /\ file'.content = <<>>
              /\ \E n \in DOMAIN dir' :
                   /\ Len(dir'[n]) >= Len(full)
                   /\ Prefix(dir'[n], Len(full)) = full ]_vars

\* a rotation failed after retention had deleted archives: the live file
\* still holds everything appended since the last truncation
C18_Witness ==
  /\ cfg.max_history >= 1
  /\ filePc \in {"flush", "done"}
  /\ hist.lastRot.status = "err"
  /\ Len(hist.lastRot.before) > cfg.max_size
  /\ file.content = hist.lastRot.before
  /\ DOMAIN dir \subseteq hist.lastRot.namesBefore
  /\ DOMAIN dir # hist.lastRot.namesBefore

\* the source bytes an archive of the active naming mode stands for
ArchiveData(bytes) == IF cfg.compress THEN GzDecode(bytes) ELSE bytes

RECURSIVE ConcatAscending(_)
\* the archives numbered nums, concatenated in ascending archive number
ConcatAscending(nums) ==
  IF nums = {} THEN <<>>
  ELSE LET m == CHOOSE k \in nums : \A j \in nums : j <= k
       IN ConcatAscending(nums \ {m})
            \o ArchiveData(dir[Arch(BaseName, m, 0, cfg.compress)])

CreatedNumbers == {hist.created[i] : i \in DOMAIN hist.created}

\* C19 (Data conservation across rotations): with max_history >= 1, no I/O
\* failure and at most max_history rotations so far, whenever the File Relay
\* is about to acknowledge, every archive created in this run is present and
\* readable, and their concatenation in ascending archive number followed by
\* the live file's contents equals all bytes the File Relay has received.
C19_DataConservation ==
  ( /\ filePc = "ack"
    /\ cfg.max_history >= 1
    /\ hist.ioFailed = {}
    /\ hist.rotations <= cfg.max_history ) =>
    /\ \A m \in CreatedNumbers :
         /\ Arch(BaseName, m, 0, cfg.compress) \in DOMAIN dir
         /\ cfg.compress => GzValid(dir[Arch(BaseName, m, 0, cfg.compress)])
    /\ Cardinality(CreatedNumbers) = Len(hist.created)
    /\ ConcatAscending(CreatedNumbers) \o file.content = hist.fileReceived

\* archives the rotations of this run have written
CreatedArchives == {n \in DOMAIN dir : n.stem = BaseName /\ n.pad = 0
                                        /\ n.gz = cfg.compress
                                        /\ n.num \in CreatedNumbers}

\* C20 (Bounded overshoot): once the File Relay has opened the live file, the
\* file never holds more than max_size + buffer_size bytes, and the contents
\* every rotation took out of it, and every archive a rotation created, were
\* more than max_size and at most max_size + buffer_size bytes long.
C20_BoundedOvershoot ==
  /\ filePc # "idle" => Len(file.content) <= cfg.max_size + cfg.buffer_size
  /\ (hist.lastRot.rotated /\ hist.lastRot.status = "ok") =>
       /\ Len(hist.lastRot.before) > cfg.max_size
       /\ Len(hist.lastRot.before) <= cfg.max_size + cfg.buffer_size
  /\ (filePc = "ack" /\ RotationSucceeded /\ cfg.max_history >= 1) =>
       /\ hist.lastRot.created \in CreatedArchives
       /\ Len(ArchiveData(dir[hist.lastRot.created])) > cfg.max_size
       /\ Len(ArchiveData(dir[hist.lastRot.created]))
            <= cfg.max_size + cfg.buffer_size

C20_Witness ==
  /\ filePc = "ack"
  /\ RotationSucceeded
  /\ cfg.max_history >= 1
  /\ cfg.buffer_size > 1
  /\ Len(hist.lastRot.before) = cfg.max_size + cfg.buffer_size
  /\ Len(ArchiveData(dir[hist.lastRot.created])) = cfg.max_size + cfg.buffer_size

====
